---- MODULE Spec2Model ----
(***************************************************************************)
(* Model of the cash-flow projection engine of cash-flow-lab               *)
(* (src/calculations.py) and of the loan set-up in src/app.py.             *)
(*                                                                         *)
(* Python floats are modelled as exact rationals [n, d] in lowest terms    *)
(* with d > 0, so that equality of values is equality of records.          *)
(***************************************************************************)
EXTENDS Integers, Sequences, FiniteSets, TLC

(* ------------------------------------------------------------------ *)
(* Bounds of the model                                                 *)
(* ------------------------------------------------------------------ *)
MaxMonths == 3

(* ------------------------------------------------------------------ *)
(* Exact rational arithmetic                                           *)
(* ------------------------------------------------------------------ *)
Abs(x) == IF x < 0 THEN -x ELSE x

RECURSIVE GCD(_, _)
GCD(a, b) == IF b = 0 THEN a ELSE GCD(b, a % b)

Q(n, d) ==
    LET g == GCD(Abs(n), Abs(d))
        s == IF d < 0 THEN -1 ELSE 1
    IN  [n |-> (s * n) \div g, d |-> (s * d) \div g]

N(k) == [n |-> k, d |-> 1]

RAdd(a, b) ==
    LET g == GCD(a.d, b.d)
    IN  Q(a.n * (b.d \div g) + b.n * (a.d \div g), a.d * (b.d \div g))

RNeg(a) == [n |-> -a.n, d |-> a.d]

RSub(a, b) == RAdd(a, RNeg(b))

RMul(a, b) ==
    LET g1 == GCD(Abs(a.n), b.d)
        g2 == GCD(Abs(b.n), a.d)
    IN  Q((a.n \div g1) * (b.n \div g2), (a.d \div g2) * (b.d \div g1))

\* 1 / a; division by zero has no value (Python raises ZeroDivisionError)
RInv(a) == IF a.n = 0 THEN CHOOSE q \in {} : TRUE ELSE Q(a.d, a.n)

RDiv(a, b) == RMul(a, RInv(b))

RLt(a, b) == a.n * b.d < b.n * a.d

RLe(a, b) == a.n * b.d <= b.n * a.d

RMin(a, b) == IF RLt(b, a) THEN b ELSE a

RMax(a, b) == IF RLt(a, b) THEN b ELSE a

RECURSIVE RPow(_, _)
RPow(a, k) == IF k = 0 THEN N(1) ELSE RMul(a, RPow(a, k - 1))

\* a ** k for an integer k of either sign
RPowInt(a, k) == IF k >= 0 THEN RPow(a, k) ELSE RInv(RPow(a, -k))

Zero == N(0)

One == N(1)

\* dict.get(key, default)
Get(dict, key, default) == IF key \in DOMAIN dict THEN dict[key] ELSE default

(* ------------------------------------------------------------------ *)
(* Program constants                                                   *)
(* ------------------------------------------------------------------ *)
DaysPerMonth == 30

MonthsPerYear == 12

CogsCap == Q(95, 100)

(* ------------------------------------------------------------------ *)
(* Optional values: None is the empty sequence, a value v is <<v>>     *)
(* ------------------------------------------------------------------ *)
None == << >>

Some(v) == << v >>

IsNone(o) == o = None

Val(o) == o[1]

(* ------------------------------------------------------------------ *)
(* calculations.py: the calculators                                    *)
(* ------------------------------------------------------------------ *)
calculate_wc_components(revenue, cogs_pct, ar_days, ap_days, inventory_days) ==
    LET cogs == RMul(revenue, cogs_pct)
    IN  [ar        |-> RMul(RDiv(revenue, N(DaysPerMonth)), ar_days),
         inventory |-> RMul(RDiv(cogs, N(DaysPerMonth)), inventory_days),
         ap        |-> RMul(RDiv(cogs, N(DaysPerMonth)), ap_days)]

calculate_ebit(revenue, cogs_pct, opex) ==
    LET cogs == RMul(revenue, cogs_pct)
    IN  RSub(RSub(revenue, cogs), opex)

calculate_working_capital(ar, inventory, ap) == RSub(RAdd(ar, inventory), ap)

\* wc_previous is an optional value
calculate_delta_wc(wc_current, wc_previous) ==
    IF IsNone(wc_previous) THEN wc_current
    ELSE RSub(wc_current, Val(wc_previous))

calculate_fcf_mutant_adds_delta(ebit, tax_rate, depreciation, capex, delta_wc) ==
    LET nopat == RMul(ebit, RSub(One, tax_rate))
    IN  RAdd(RSub(RAdd(nopat, depreciation), capex), delta_wc)

calculate_fcf(ebit, tax_rate, depreciation, capex, delta_wc) ==
    LET nopat == RMul(ebit, RSub(One, tax_rate))
    IN  RSub(RSub(RAdd(nopat, depreciation), capex), delta_wc)

ZeroService ==
    [interest_expense |-> Zero, principal_payment |-> Zero, remaining_balance |-> Zero]

\* the annuity present value of k payments (lines 81 and 84)
PresentValue(monthly_payment, monthly_rate, k) ==
    RMul(monthly_payment,
         RDiv(RSub(One, RPowInt(RAdd(One, monthly_rate), -k)), monthly_rate))

\* lines 67-77: the 0% interest case
zero_rate_mutant_flat(dp, month) ==
    LET remaining_balance == RSub(dp.loan_amount, dp.monthly_payment)
    IN  [interest_expense  |-> Zero,
         principal_payment |-> dp.monthly_payment,
         remaining_balance |-> RMax(Zero, remaining_balance)]

zero_rate_service(dp, month) ==
    LET remaining_balance ==
            RSub(dp.loan_amount, RMul(dp.monthly_payment, N(month - 1)))
    IN  [interest_expense  |-> Zero,
         principal_payment |-> dp.monthly_payment,
         remaining_balance |-> RMax(Zero, remaining_balance)]

standard_service_mutant_balance_principal(dp, monthly_rate, months_remaining, month) ==
    LET remaining_balance ==
            PresentValue(dp.monthly_payment, monthly_rate, months_remaining)
        prev_balance ==
            IF month > 1
            THEN PresentValue(dp.monthly_payment, monthly_rate, months_remaining + 1)
            ELSE dp.loan_amount
    IN  [interest_expense  |-> RMul(prev_balance, monthly_rate),
         principal_payment |-> RSub(prev_balance, remaining_balance),
         remaining_balance |-> remaining_balance]

\* lines 79-94: standard amortization with interest
standard_service(dp, monthly_rate, months_remaining, month) ==
    LET remaining_balance ==
            PresentValue(dp.monthly_payment, monthly_rate, months_remaining)
        prev_balance ==
            IF month > 1
            THEN PresentValue(dp.monthly_payment, monthly_rate, months_remaining + 1)
            ELSE dp.loan_amount
        interest_expense == RMul(prev_balance, monthly_rate)
        principal_payment == RSub(dp.monthly_payment, interest_expense)
    IN  [interest_expense  |-> interest_expense,
         principal_payment |-> principal_payment,
         remaining_balance |-> remaining_balance]

calculate_debt_service_mutant_no_term(debt_params, month) ==
    IF IsNone(debt_params) THEN ZeroService
    ELSE
    LET dp == Val(debt_params)
        monthly_rate == RDiv(dp.interest_rate, N(MonthsPerYear))
        months_remaining == dp.term_months - month + 1
    IN  IF monthly_rate = Zero THEN zero_rate_service(dp, month)
        ELSE standard_service(dp, monthly_rate, months_remaining, month)

\* debt_params is an optional record
calculate_debt_service(debt_params, month) ==
    IF IsNone(debt_params) THEN ZeroService
    ELSE
    LET dp == Val(debt_params)
        monthly_rate == RDiv(dp.interest_rate, N(MonthsPerYear))
        months_remaining == dp.term_months - month + 1
    IN  IF month > dp.term_months THEN ZeroService
        ELSE IF months_remaining <= 0 THEN ZeroService
        ELSE IF monthly_rate = Zero THEN zero_rate_service(dp, month)
        ELSE standard_service(dp, monthly_rate, months_remaining, month)

calculate_tier1_metrics_mutant_max(revenue, ebit, ar, inventory, ap, cash_balance, opex) ==
    LET current_assets == RAdd(RAdd(ar, inventory), cash_balance)
        current_liabilities == RMax(ap, One)
    IN  [current_ratio     |-> RDiv(current_assets, current_liabilities),
         quick_ratio       |-> RDiv(RSub(current_assets, inventory), current_liabilities),
         days_cash_on_hand |-> IF RLt(Zero, opex)
                               THEN RDiv(cash_balance, RDiv(opex, N(DaysPerMonth)))
                               ELSE Zero,
         operating_margin  |-> IF RLt(Zero, revenue)
                               THEN RMul(RDiv(ebit, revenue), N(100))
                               ELSE Zero]

calculate_tier1_metrics_mutant_no_shortcut(revenue, ebit, ar, inventory, ap, cash_balance, opex) ==
    LET current_assets == RAdd(RAdd(ar, inventory), cash_balance)
        current_liabilities == IF RLt(Zero, ap) THEN ap ELSE One
    IN  [current_ratio     |-> RDiv(current_assets, current_liabilities),
         quick_ratio       |-> RDiv(RSub(current_assets, inventory), current_liabilities),
         days_cash_on_hand |-> IF RLt(Zero, opex)
                               THEN RDiv(cash_balance, RDiv(opex, N(DaysPerMonth)))
                               ELSE cash_balance,
         operating_margin  |-> IF RLt(Zero, revenue)
                               THEN RMul(RDiv(ebit, revenue), N(100))
                               ELSE ebit]

calculate_tier1_metrics(revenue, ebit, ar, inventory, ap, cash_balance, opex) ==
    LET current_assets == RAdd(RAdd(ar, inventory), cash_balance)
        current_liabilities == IF RLt(Zero, ap) THEN ap ELSE One
    IN  [current_ratio     |-> RDiv(current_assets, current_liabilities),
         quick_ratio       |-> RDiv(RSub(current_assets, inventory), current_liabilities),
         days_cash_on_hand |-> IF RLt(Zero, opex)
                               THEN RDiv(cash_balance, RDiv(opex, N(DaysPerMonth)))
                               ELSE Zero,
         operating_margin  |-> IF RLt(Zero, revenue)
                               THEN RMul(RDiv(ebit, revenue), N(100))
                               ELSE Zero]

(* ------------------------------------------------------------------ *)
(* calculations.py: apply_scenario_adjustments                         *)
(*                                                                     *)
(* Dicts are mutable objects: the heap is the sequence of the dicts    *)
(* that exist, and a reference is an index into it.                    *)
(* ------------------------------------------------------------------ *)
ConservativeInventory == Q(115, 100)

AggressiveInventory == Q(85, 100)

dict_copy_mutant_alias(heap, ref) == [heap |-> heap, ref |-> ref]

\* d.copy(): a new dict with the same items
dict_copy(heap, ref) == [heap |-> Append(heap, heap[ref]), ref |-> Len(heap) + 1]

\* d[key] = value
set_item(heap, ref, key, value) == [heap EXCEPT ![ref][key] = value]

adjust_conservative_mutant_capped(heap, base_inputs, adjusted) ==
    LET h1 == set_item(heap, adjusted, "ar_days",
                       RMin(RAdd(heap[base_inputs].ar_days, N(10)), N(60)))
        h2 == set_item(h1, adjusted, "ap_days",
                       RMax(Zero, RSub(h1[base_inputs].ap_days, N(5))))
    IN  set_item(h2, adjusted, "inventory_days",
                 RMul(h2[base_inputs].inventory_days, ConservativeInventory))

adjust_conservative_mutant_sign(heap, base_inputs, adjusted) ==
    LET h1 == set_item(heap, adjusted, "ar_days", RSub(heap[base_inputs].ar_days, N(10)))
        h2 == set_item(h1, adjusted, "ap_days",
                       RMax(Zero, RSub(h1[base_inputs].ap_days, N(5))))
    IN  set_item(h2, adjusted, "inventory_days",
                 RMul(h2[base_inputs].inventory_days, ConservativeInventory))

\* lines 131-133
adjust_conservative(heap, base_inputs, adjusted) ==
    LET h1 == set_item(heap, adjusted, "ar_days", RAdd(heap[base_inputs].ar_days, N(10)))
        h2 == set_item(h1, adjusted, "ap_days",
                       RMax(Zero, RSub(h1[base_inputs].ap_days, N(5))))
    IN  set_item(h2, adjusted, "inventory_days",
                 RMul(h2[base_inputs].inventory_days, ConservativeInventory))

adjust_aggressive_mutant_unclamped(heap, base_inputs, adjusted) ==
    LET h1 == set_item(heap, adjusted, "ar_days", RSub(heap[base_inputs].ar_days, N(10)))
        h2 == set_item(h1, adjusted, "ap_days", RAdd(h1[base_inputs].ap_days, N(10)))
    IN  set_item(h2, adjusted, "inventory_days",
                 RMul(h2[base_inputs].inventory_days, AggressiveInventory))

\* lines 136-138
adjust_aggressive(heap, base_inputs, adjusted) ==
    LET h1 == set_item(heap, adjusted, "ar_days",
                       RMax(Zero, RSub(heap[base_inputs].ar_days, N(10))))
        h2 == set_item(h1, adjusted, "ap_days", RAdd(h1[base_inputs].ap_days, N(10)))
    IN  set_item(h2, adjusted, "inventory_days",
                 RMul(h2[base_inputs].inventory_days, AggressiveInventory))

\* lines 127-140, after the copy c: the heap and the reference returned
adjust_copy(c, base_inputs, scenario_type) ==
    [heap |-> CASE scenario_type = "base" -> c.heap
                [] scenario_type = "conservative" ->
                       adjust_conservative(c.heap, base_inputs, c.ref)
                [] scenario_type = "aggressive" ->
                       adjust_aggressive(c.heap, base_inputs, c.ref)
                [] OTHER -> c.heap,
     ref  |-> c.ref]

\* base_inputs is a reference; the result is the new heap and the reference
\* of the returned dict
apply_scenario_adjustments(heap, base_inputs, scenario_type) ==
    adjust_copy(dict_copy(heap, base_inputs), base_inputs, scenario_type)

(* ------------------------------------------------------------------ *)
(* app.py, render_wc_scenarios: the terms of the dashboard's scenarios *)
(* ------------------------------------------------------------------ *)
\* int(x): the whole part of x, rounded towards zero
int(x) == IF x.n >= 0 THEN N(x.n \div x.d) ELSE N(-((-x.n) \div x.d))

\* lines 661-667: agg_ar, agg_ap, agg_inv and cons_ar, cons_ap, cons_inv
wc_scenario_terms(base, scenario_type) ==
    IF scenario_type = "aggressive"
    THEN [ar_days        |-> RMax(Zero, RSub(base.ar_days, N(10))),
          ap_days        |-> RAdd(base.ap_days, N(10)),
          inventory_days |-> int(RMul(base.inventory_days, AggressiveInventory))]
    ELSE [ar_days        |-> RAdd(base.ar_days, N(10)),
          ap_days        |-> RMax(Zero, RSub(base.ap_days, N(5))),
          inventory_days |-> int(RMul(base.inventory_days, ConservativeInventory))]

\* lines 726-727 and 731-732: the copy of base_inputs after update({...})
wc_scenario_update(c, terms) ==
    set_item(set_item(set_item(c.heap, c.ref, "ar_days", terms.ar_days),
                      c.ref, "ap_days", terms.ap_days),
             c.ref, "inventory_days", terms.inventory_days)[c.ref]

\* the inputs the handler gives to generate_monthly_projections
wc_scenario_inputs(heap, base_inputs, scenario_type) ==
    wc_scenario_update(dict_copy(heap, base_inputs),
                       wc_scenario_terms(heap[base_inputs], scenario_type))

(* ------------------------------------------------------------------ *)
(* app.py, render_sidebar: the loan set-up                             *)
(* ------------------------------------------------------------------ *)
monthly_payment_of(term_amount, term_rate, term_months) ==
    LET monthly_rate == RDiv(term_rate, N(MonthsPerYear))
        growth == RPow(RAdd(One, monthly_rate), term_months)
    IN  IF RLt(Zero, monthly_rate)
        THEN RDiv(RMul(term_amount, RMul(monthly_rate, growth)), RSub(growth, One))
        ELSE RDiv(term_amount, N(term_months))

make_debt_params(term_amount, term_rate, term_months) ==
    [loan_amount     |-> term_amount,
     interest_rate   |-> term_rate,
     term_months     |-> term_months,
     monthly_payment |-> monthly_payment_of(term_amount, term_rate, term_months)]

(* ------------------------------------------------------------------ *)
(* calculations.py: generate_monthly_projections, one loop iteration   *)
(* ------------------------------------------------------------------ *)
\* base * ((1 + rate) ** month)
compound(base, rate, month) == RMul(base, RPow(RAdd(One, rate), month))

effective_cogs_pct_mutant_uncapped(base_cogs_pct, cogs_increase, month) ==
    compound(base_cogs_pct, cogs_increase, month)

effective_cogs_pct_mutant_static(base_cogs_pct, cogs_increase, month) ==
    RMin(base_cogs_pct, CogsCap)

effective_cogs_pct_mutant_low_cap(base_cogs_pct, cogs_increase, month) ==
    RMin(compound(base_cogs_pct, cogs_increase, month), Q(90, 100))

effective_cogs_pct(base_cogs_pct, cogs_increase, month) ==
    RMin(compound(base_cogs_pct, cogs_increase, month), CogsCap)

month_debt_service_mutant_no_month0(debt_params, month) ==
    calculate_debt_service(debt_params, month)

month_debt_service(debt_params, month) ==
    IF month > 0 THEN calculate_debt_service(debt_params, month)
    ELSE [interest_expense  |-> Zero,
          principal_payment |-> Zero,
          remaining_balance |-> IF IsNone(debt_params) THEN Zero
                                ELSE Val(debt_params).loan_amount]

month_deltas_mutant_no_baseline(month, wc, wc_components, prev) ==
    [delta_wc        |-> calculate_delta_wc(wc, Some(prev.wc)),
     delta_ar        |-> RSub(wc_components.ar, prev.ar),
     delta_inventory |-> RSub(wc_components.inventory, prev.inventory),
     delta_ap        |-> RSub(wc_components.ap, prev.ap)]

month_deltas_mutant_first_period(month, wc, wc_components, prev) ==
    IF month = 0
    THEN [delta_wc |-> Zero, delta_ar |-> Zero,
          delta_inventory |-> Zero, delta_ap |-> Zero]
    ELSE [delta_wc        |-> calculate_delta_wc(wc, None),
          delta_ar        |-> RSub(wc_components.ar, prev.ar),
          delta_inventory |-> RSub(wc_components.inventory, prev.inventory),
          delta_ap        |-> RSub(wc_components.ap, prev.ap)]

\* prev holds wc_previous, ar_previous, inventory_previous, ap_previous
month_deltas(month, wc, wc_components, prev) ==
    IF month = 0
    THEN [delta_wc |-> Zero, delta_ar |-> Zero,
          delta_inventory |-> Zero, delta_ap |-> Zero]
    ELSE [delta_wc        |-> calculate_delta_wc(wc, Some(prev.wc)),
          delta_ar        |-> RSub(wc_components.ar, prev.ar),
          delta_inventory |-> RSub(wc_components.inventory, prev.inventory),
          delta_ap        |-> RSub(wc_components.ap, prev.ap)]

next_cash_balance_mutant_overwrite(month, cash_balance, fcf_after_debt) ==
    IF month > 0 THEN fcf_after_debt ELSE cash_balance

next_cash_balance_mutant_month0(month, cash_balance, fcf_after_debt) ==
    RAdd(cash_balance, fcf_after_debt)

next_cash_balance(month, cash_balance, fcf_after_debt) ==
    IF month > 0 THEN RAdd(cash_balance, fcf_after_debt) ELSE cash_balance

month_dscr_mutant_floor(debt_params, month, debt_service, fcf) ==
    LET total == RAdd(debt_service.interest_expense, debt_service.principal_payment)
    IN  IF month > 0 THEN RDiv(fcf, RMax(total, One)) ELSE Zero

month_dscr_mutant_principal_only(debt_params, month, debt_service, fcf) ==
    IF ~IsNone(debt_params) /\ month > 0 /\ RLt(Zero, debt_service.principal_payment)
    THEN RDiv(fcf, debt_service.principal_payment)
    ELSE Zero

month_dscr(debt_params, month, debt_service, fcf) ==
    LET total == RAdd(debt_service.interest_expense, debt_service.principal_payment)
    IN  IF ~IsNone(debt_params) /\ month > 0 /\ RLt(Zero, total)
        THEN RDiv(fcf, total)
        ELSE Zero

month_ccc_mutant_plus_ap(inputs) ==
    RAdd(RAdd(inputs.ar_days, inputs.inventory_days), inputs.ap_days)

\* line 246
month_ccc(inputs) ==
    RSub(RAdd(inputs.ar_days, inputs.inventory_days), inputs.ap_days)

\* The body of the loop, in the order of the code.  Each step takes the locals
\* computed so far (a record L) and adds its own.

\* lines 171-185: the compounded levels and the debt service of this month
month_levels(inputs, debt_params, month) ==
    [current_revenue  |-> compound(inputs.revenue, Get(inputs, "price_increase", Zero), month),
     current_cogs_pct |-> effective_cogs_pct(inputs.cogs_pct,
                                             Get(inputs, "cogs_increase", Zero), month),
     current_opex     |-> compound(inputs.opex, Get(inputs, "opex_increase", Zero), month),
     debt_service     |-> month_debt_service(debt_params, month)]

\* lines 187-212: earnings and working-capital balances
month_earnings(inputs, L) ==
    LET ebit == calculate_ebit(L.current_revenue, L.current_cogs_pct, L.current_opex)
        ebit_after_interest == RSub(ebit, L.debt_service.interest_expense)
        cogs == RMul(L.current_revenue, L.current_cogs_pct)
        wc_components ==
            calculate_wc_components(L.current_revenue, L.current_cogs_pct,
                                    inputs.ar_days, inputs.ap_days, inputs.inventory_days)
    IN  L @@
        [ebit                |-> ebit,
         ebit_after_interest |-> ebit_after_interest,
         ebit_after_tax      |-> RMul(ebit_after_interest, RSub(One, inputs.tax_rate)),
         cogs                |-> cogs,
         gross_margin        |-> IF RLt(Zero, L.current_revenue)
                                 THEN RMul(RDiv(RSub(L.current_revenue, cogs),
                                                L.current_revenue), N(100))
                                 ELSE Zero,
         wc_components       |-> wc_components,
         wc                  |-> calculate_working_capital(wc_components.ar,
                                                           wc_components.inventory,
                                                           wc_components.ap)]

month_flows_mutant_before_interest(inputs, month, prev, L) ==
    LET deltas == month_deltas(month, L.wc, L.wc_components, prev)
        fcf == calculate_fcf(L.ebit, inputs.tax_rate, inputs.depreciation,
                             inputs.capex, deltas.delta_wc)
    IN  L @@
        [deltas         |-> deltas,
         fcf            |-> fcf,
         fcf_after_debt |-> RSub(fcf, L.debt_service.principal_payment)]

\* lines 214-239: the deltas and the free cash flow
month_flows(inputs, month, prev, L) ==
    LET deltas == month_deltas(month, L.wc, L.wc_components, prev)
        fcf == calculate_fcf(L.ebit_after_interest, inputs.tax_rate, inputs.depreciation,
                             inputs.capex, deltas.delta_wc)
    IN  L @@
        [deltas         |-> deltas,
         fcf            |-> fcf,
         fcf_after_debt |-> RSub(fcf, L.debt_service.principal_payment)]

month_metrics_mutant_stale_cash(inputs, debt_params, month, cash_before, L) ==
    LET cash_balance == next_cash_balance(month, cash_before, L.fcf_after_debt)
    IN  L @@
        [cash_balance |-> cash_balance,
         ccc          |-> month_ccc(inputs),
         tier1        |-> calculate_tier1_metrics(L.current_revenue, L.ebit,
                                                  L.wc_components.ar,
                                                  L.wc_components.inventory,
                                                  L.wc_components.ap,
                                                  cash_before, L.current_opex),
         dscr         |-> month_dscr(debt_params, month, L.debt_service, L.fcf)]

\* lines 241-262: the cash balance, then the metrics that read it
month_metrics(inputs, debt_params, month, cash_before, L) ==
    LET cash_balance == next_cash_balance(month, cash_before, L.fcf_after_debt)
    IN  L @@
        [cash_balance |-> cash_balance,
         ccc          |-> month_ccc(inputs),
         tier1        |-> calculate_tier1_metrics(L.current_revenue, L.ebit,
                                                  L.wc_components.ar,
                                                  L.wc_components.inventory,
                                                  L.wc_components.ap,
                                                  cash_balance, L.current_opex),
         dscr         |-> month_dscr(debt_params, month, L.debt_service, L.fcf)]

\* lines 265-293: the record that is appended
month_row(month, L) ==
    [month               |-> month,
     revenue             |-> L.current_revenue,
     cogs                |-> L.cogs,
     ebit                |-> L.ebit,
     interest_expense    |-> L.debt_service.interest_expense,
     ebit_after_interest |-> L.ebit_after_interest,
     ebit_after_tax      |-> L.ebit_after_tax,
     ar                  |-> L.wc_components.ar,
     inventory           |-> L.wc_components.inventory,
     ap                  |-> L.wc_components.ap,
     wc                  |-> L.wc,
     delta_wc            |-> L.deltas.delta_wc,
     delta_ar            |-> L.deltas.delta_ar,
     delta_inventory     |-> L.deltas.delta_inventory,
     delta_ap            |-> L.deltas.delta_ap,
     fcf                 |-> L.fcf,
     principal_payment   |-> L.debt_service.principal_payment,
     fcf_after_debt      |-> L.fcf_after_debt,
     debt_balance        |-> L.debt_service.remaining_balance,
     dscr                |-> L.dscr,
     cash_balance        |-> L.cash_balance,
     ccc                 |-> L.ccc,
     gross_margin        |-> L.gross_margin,
     current_ratio       |-> L.tier1.current_ratio,
     quick_ratio         |-> L.tier1.quick_ratio,
     days_cash_on_hand   |-> L.tier1.days_cash_on_hand,
     operating_margin    |-> L.tier1.operating_margin]

\* the record appended by the iteration for this month
month_record(inputs, debt_params, month, prev, cash_before) ==
    month_row(month,
        month_metrics(inputs, debt_params, month, cash_before,
            month_flows(inputs, month, prev,
                month_earnings(inputs,
                    month_levels(inputs, debt_params, month)))))

\* the divisors of the divisions calculate_debt_service(debt_params, month)
\* executes: lines 61, 81 and 84
debt_service_divisors(debt_params, month) ==
    IF IsNone(debt_params) \/ month > Val(debt_params).term_months THEN {}
    ELSE
    LET dp == Val(debt_params)
        monthly_rate == RDiv(dp.interest_rate, N(MonthsPerYear))
        months_remaining == dp.term_months - month + 1
    IN  {N(MonthsPerYear)} \cup
        (IF months_remaining <= 0 \/ monthly_rate = Zero THEN {}
         ELSE {monthly_rate, RPow(RAdd(One, monthly_rate), months_remaining)} \cup
              (IF month > 1
               THEN {RPow(RAdd(One, monthly_rate), months_remaining + 1)}
               ELSE {}))

\* the divisors of the divisions one iteration executes, L being the locals
\* after lines 171-212: lines 14-16, 182, 196, 108-113 and 261-262
iteration_divisors(debt_params, month, L) ==
    {N(DaysPerMonth)} \cup
    (IF month > 0 THEN debt_service_divisors(debt_params, month) ELSE {}) \cup
    (IF RLt(Zero, L.current_revenue) THEN {L.current_revenue} ELSE {}) \cup
    {IF RLt(Zero, L.wc_components.ap) THEN L.wc_components.ap ELSE One} \cup
    (IF RLt(Zero, L.current_opex) THEN {RDiv(L.current_opex, N(DaysPerMonth))} ELSE {}) \cup
    (IF ~IsNone(debt_params) /\ month > 0
        /\ RLt(Zero, RAdd(L.debt_service.interest_expense,
                          L.debt_service.principal_payment))
     THEN {RAdd(L.debt_service.interest_expense, L.debt_service.principal_payment)}
     ELSE {})

in_range_mutant_exclusive(month, num_months) == month < num_months

\* range(0, num_months + 1) still has the value month to yield
in_range(month, num_months) == month < num_months + 1

(* ------------------------------------------------------------------ *)
(* The arguments a caller may pass                                     *)
(* ------------------------------------------------------------------ *)
RevenueSet == {N(0), N(6000)}

CogsPctSet == {Zero, Q(1, 2), Q(19, 20), One}

CogsIncreaseSet == {Zero, Q(1, 2)}

\* the other fields of the record, as they are set together
ProfileSet ==
    {[opex |-> N(2000), opex_increase |-> Zero, tax_rate |-> Q(1, 4),
      ar_days |-> N(45), ap_days |-> N(30), inventory_days |-> N(60),
      capex |-> N(500), depreciation |-> N(400),
      price_increase |-> Q(1, 2), opening_cash |-> N(10000)],
     [opex |-> N(0), opex_increase |-> Q(1, 2), tax_rate |-> Zero,
      ar_days |-> N(0), ap_days |-> N(0), inventory_days |-> N(0),
      capex |-> N(0), depreciation |-> N(0),
      price_increase |-> Zero, opening_cash |-> N(0)],
     [opex |-> N(3000), opex_increase |-> Q(1, 2), tax_rate |-> Q(1, 2),
      ar_days |-> N(30), ap_days |-> N(60), inventory_days |-> N(15),
      capex |-> N(0), depreciation |-> N(1000),
      price_increase |-> Q(1, 2), opening_cash |-> N(500)]}

FullInputsSet ==
    {[revenue        |-> rev,
      cogs_pct       |-> cp,
      cogs_increase  |-> ci,
      opex           |-> pf.opex,
      opex_increase  |-> pf.opex_increase,
      tax_rate       |-> pf.tax_rate,
      ar_days        |-> pf.ar_days,
      ap_days        |-> pf.ap_days,
      inventory_days |-> pf.inventory_days,
      capex          |-> pf.capex,
      depreciation   |-> pf.depreciation,
      price_increase |-> pf.price_increase,
      opening_cash   |-> pf.opening_cash] :
        rev \in RevenueSet, cp \in CogsPctSet, ci \in CogsIncreaseSet, pf \in ProfileSet}

\* records without the keys that are read with inputs.get(key, 0)
BareInputsSet ==
    {[revenue        |-> rev,
      cogs_pct       |-> cp,
      opex           |-> N(2000),
      tax_rate       |-> Q(1, 4),
      ar_days        |-> N(45),
      ap_days        |-> N(30),
      inventory_days |-> N(60),
      capex          |-> N(500),
      depreciation   |-> N(400)] :
        rev \in {N(6000)}, cp \in {Q(1, 2), One}}

\* the dashboard's defaults with 10% monthly growth
ExampleInputs ==
    [revenue        |-> N(100000),
     cogs_pct       |-> Q(60, 100),
     cogs_increase  |-> Zero,
     opex           |-> N(20000),
     opex_increase  |-> Zero,
     tax_rate       |-> Q(25, 100),
     ar_days        |-> N(45),
     ap_days        |-> N(30),
     inventory_days |-> N(60),
     capex          |-> N(5000),
     depreciation   |-> N(4000),
     price_increase |-> Q(10, 100),
     opening_cash   |-> N(100000)]

\* a business whose payables stay below one currency unit
SmallInputs ==
    [ExampleInputs EXCEPT !.revenue = N(1), !.cogs_pct = Q(1, 2), !.opex = N(1),
                          !.capex = Zero, !.depreciation = Zero,
                          !.price_increase = Zero, !.opening_cash = N(10)]

InputsSet == FullInputsSet \cup BareInputsSet \cup {ExampleInputs, SmallInputs}

\* loan_amount, annual interest_rate, term_months
LoanSet ==
    {<<N(1200), Zero, 3>>, <<N(900), Zero, 2>>, <<N(0), Zero, 2>>,
     <<N(300), N(12), 2>>, <<N(380), N(6), 3>>}

DebtParamsSet ==
    {None} \cup {Some(make_debt_params(l[1], l[2], l[3])) : l \in LoanSet}

(* ------------------------------------------------------------------ *)
(* State: one call of generate_monthly_projections                     *)
(* ------------------------------------------------------------------ *)
VARIABLES
    inputs,              \* argument: the parameter record
    num_months,          \* argument
    debt_params,         \* argument: None or Some(record)
    pc,                  \* "call", "loop", "done"
    month,               \* the value range(0, num_months + 1) yields next
    wc_previous,
    ar_previous,
    inventory_previous,
    ap_previous,
    cash_balance,
    results,             \* the list of records appended so far
    given,               \* caller: the arguments as they were passed to the call
    earlier,             \* caller: the arguments and the result of each finished call
    heap,                \* caller: the parameter dicts that exist
    base_ref,            \* caller: the dict passed to apply_scenario_adjustments last
    adj_ref,             \* caller: the dict it returned last (0: none yet)
    adj_log,             \* caller: what each call of apply_scenario_adjustments saw
    wc_log               \* caller: the inputs render_wc_scenarios gave to the engine

vars == <<inputs, num_months, debt_params, pc, month, wc_previous, ar_previous,
          inventory_previous, ap_previous, cash_balance, results,
          given, earlier, heap, base_ref, adj_ref, adj_log, wc_log>>

args == <<inputs, num_months, debt_params>>

caller_vars == <<given, earlier, heap, base_ref, adj_ref, adj_log, wc_log>>

\* lines 170-299 assign to no key of inputs
inputs_after_iteration_mutant_writes_revenue(inp, m) ==
    [inp EXCEPT !.revenue = compound(inp.revenue, Get(inp, "price_increase", Zero), m)]

inputs_after_iteration(inp, m) == inp

\* no dict of the scenario adjuster exists
NoAdjuster ==
    /\ heap = << >>
    /\ base_ref = 0
    /\ adj_ref = 0
    /\ adj_log = << >>
    /\ wc_log = {}

\* a caller about to call generate_monthly_projections(inputs, num_months, debt_params)
CallInit(InputsChoice, DebtChoice) ==
    /\ inputs \in InputsChoice
    /\ num_months \in 1..MaxMonths
    /\ debt_params \in DebtChoice
    /\ given = [inputs |-> inputs, num_months |-> num_months, debt_params |-> debt_params]
    /\ earlier = << >>
    /\ pc = "call"
    /\ month = 0
    /\ wc_previous = Zero
    /\ ar_previous = Zero
    /\ inventory_previous = Zero
    /\ ap_previous = Zero
    /\ cash_balance = Zero
    /\ results = << >>

Init == CallInit(InputsSet, DebtParamsSet) /\ NoAdjuster

\* lines 145-167: the locals before the loop
Enter ==
    /\ pc = "call"
    /\ LET initial_wc ==
               calculate_wc_components(inputs.revenue, inputs.cogs_pct, inputs.ar_days,
                                       inputs.ap_days, inputs.inventory_days)
       IN  /\ wc_previous' = calculate_working_capital(initial_wc.ar, initial_wc.inventory,
                                                       initial_wc.ap)
           /\ ar_previous' = initial_wc.ar
           /\ inventory_previous' = initial_wc.inventory
           /\ ap_previous' = initial_wc.ap
    /\ cash_balance' = Get(inputs, "opening_cash", Zero)
    /\ results' = << >>
    /\ month' = 0
    /\ pc' = "loop"
    /\ UNCHANGED <<args, caller_vars>>

Carry_mutant_keeps_baseline(rec) ==
    /\ results' = Append(results, rec)
    /\ cash_balance' = rec.cash_balance
    /\ UNCHANGED <<wc_previous, ar_previous, inventory_previous, ap_previous>>

\* lines 265-299: the record is appended and the carried balances updated
Carry(rec) ==
    /\ results' = Append(results, rec)
    /\ cash_balance' = rec.cash_balance
    /\ wc_previous' = rec.wc
    /\ ar_previous' = rec.ar
    /\ inventory_previous' = rec.inventory
    /\ ap_previous' = rec.ap

\* lines 170-299: one iteration of the loop
LoopBody ==
    /\ pc = "loop"
    /\ in_range(month, num_months)
    /\ Carry(month_record(inputs, debt_params, month,
                          [wc |-> wc_previous, ar |-> ar_previous,
                           inventory |-> inventory_previous, ap |-> ap_previous],
                          cash_balance))
    /\ month' = month + 1
    /\ pc' = "loop"
    /\ inputs' = inputs_after_iteration(inputs, month)
    /\ UNCHANGED <<num_months, debt_params, caller_vars>>

\* line 301: the loop is exhausted, the records are returned
Return ==
    /\ pc = "loop"
    /\ ~in_range(month, num_months)
    /\ pc' = "done"
    /\ UNCHANGED <<args, month, wc_previous, ar_previous, inventory_previous,
                   ap_previous, cash_balance, results, caller_vars>>

Next == Enter \/ LoopBody \/ Return

Spec == Init /\ [][Next]_vars

(* ------------------------------------------------------------------ *)
(* State: a caller that calls generate_monthly_projections repeatedly  *)
(* ------------------------------------------------------------------ *)
MaxEarlier == 2

CallInputsSet ==
    {ExampleInputs, SmallInputs} \cup
    {i \in FullInputsSet : /\ i.revenue = N(6000)
                           /\ i.cogs_pct = Q(1, 2)
                           /\ i.cogs_increase = Q(1, 2)
                           /\ i.opex = N(2000)}

CallDebtSet == {None, Some(make_debt_params(N(380), N(6), 3))}

\* the arguments of the calls made in between
OtherArgsSet ==
    {[inputs |-> SmallInputs, num_months |-> 1, debt_params |-> None],
     [inputs |-> ExampleInputs, num_months |-> MaxMonths,
      debt_params |-> Some(make_debt_params(N(1200), Zero, 3))]}

\* the arguments of the caller's first call
FirstGiven == IF earlier = << >> THEN given ELSE earlier[1].given

\* the caller keeps the returned list and calls again; the locals of the
\* new call hold whatever was there until lines 145-167 assign them
CallAgain(a) ==
    /\ pc = "done"
    /\ Len(earlier) < MaxEarlier
    /\ earlier' = Append(earlier, [given |-> given, results |-> results])
    /\ given' = a
    /\ inputs' = a.inputs
    /\ num_months' = a.num_months
    /\ debt_params' = a.debt_params
    /\ pc' = "call"
    /\ UNCHANGED <<month, wc_previous, ar_previous, inventory_previous, ap_previous,
                   cash_balance, results, heap, base_ref, adj_ref, adj_log, wc_log>>

CallsInit == CallInit(CallInputsSet, CallDebtSet) /\ NoAdjuster

CallsNext == Next \/ \E a \in {FirstGiven} \cup OtherArgsSet : CallAgain(a)

CallsSpec == CallsInit /\ [][CallsNext]_vars

(* ------------------------------------------------------------------ *)
(* State: a caller of apply_scenario_adjustments                       *)
(* ------------------------------------------------------------------ *)
MaxAdjusts == 2

KindSet == {"base", "conservative", "aggressive", "custom"}

\* base parameter sets that differ in their day terms
AdjustInputsSet ==
    {[ExampleInputs EXCEPT !.ar_days = N(d[1]), !.ap_days = N(d[2]),
                           !.inventory_days = N(d[3])] :
         d \in {<<45, 30, 60>>, <<0, 0, 0>>, <<5, 3, 20>>, <<30, 60, 15>>}}

\* no call of generate_monthly_projections is in progress
NoProjection ==
    /\ inputs = ExampleInputs
    /\ num_months = 1
    /\ debt_params = None
    /\ given = [inputs |-> inputs, num_months |-> num_months, debt_params |-> debt_params]
    /\ earlier = << >>
    /\ pc = "idle"
    /\ month = 0
    /\ wc_previous = Zero
    /\ ar_previous = Zero
    /\ inventory_previous = Zero
    /\ ap_previous = Zero
    /\ cash_balance = Zero
    /\ results = << >>

AdjustInit ==
    /\ heap \in {<<b>> : b \in AdjustInputsSet}
    /\ base_ref = 1
    /\ adj_ref = 0
    /\ adj_log = << >>
    /\ wc_log = {}
    /\ NoProjection

\* what the caller can observe of one call
adjust_entry(before, after, ref, scenario_type) ==
    [kind       |-> scenario_type,
     arg_ref    |-> ref,
     arg        |-> before[ref],
     arg_after  |-> after.heap[ref],
     result_ref |-> after.ref,
     result     |-> after.heap[after.ref]]

\* adjusted = apply_scenario_adjustments(d, scenario_type) for a dict d the
\* caller holds: the base or a dict returned earlier
Adjust(ref, scenario_type) ==
    /\ Len(adj_log) < MaxAdjusts
    /\ heap' = apply_scenario_adjustments(heap, ref, scenario_type).heap
    /\ adj_ref' = apply_scenario_adjustments(heap, ref, scenario_type).ref
    /\ base_ref' = ref
    /\ adj_log' = Append(adj_log,
                         adjust_entry(heap, apply_scenario_adjustments(heap, ref,
                                                                       scenario_type),
                                      ref, scenario_type))
    /\ UNCHANGED <<args, pc, month, wc_previous, ar_previous, inventory_previous,
                   ap_previous, cash_balance, results, given, earlier, wc_log>>

\* the caller assigns to a key of the dict it got back, as app.py does with
\* its copies: delay_inputs['ar_days'] = base_inputs['ar_days'] + 15
Update ==
    /\ adj_ref # 0
    /\ heap' = set_item(heap, adj_ref, "ar_days", RAdd(heap[base_ref].ar_days, N(15)))
    /\ heap' # heap
    /\ UNCHANGED <<args, pc, month, wc_previous, ar_previous, inventory_previous,
                   ap_previous, cash_balance, results, given, earlier,
                   base_ref, adj_ref, adj_log, wc_log>>

\* app.py 724-733: render_wc_scenarios copies base_inputs, updates the copy
\* with its own terms for the scenario and gives it to the engine; the copy
\* is a local of the handler and is dropped when it returns
RenderWc(scenario_type) ==
    /\ wc_log' = wc_log \cup
                     {[kind   |-> scenario_type,
                       base   |-> heap[1],
                       inputs |-> wc_scenario_inputs(heap, 1, scenario_type)]}
    /\ wc_log' # wc_log
    /\ UNCHANGED <<args, pc, month, wc_previous, ar_previous, inventory_previous,
                   ap_previous, cash_balance, results, given, earlier,
                   heap, base_ref, adj_ref, adj_log>>

AdjustNext ==
    \/ Update
    \/ \E ref \in DOMAIN heap, kind \in KindSet : Adjust(ref, kind)
    \/ \E kind \in {"aggressive", "conservative"} : RenderWc(kind)

AdjustSpec == AdjustInit /\ [][AdjustNext]_vars

(* ------------------------------------------------------------------ *)
(* State: generate_scenario_comparison(base_inputs, num_months,        *)
(* debt_params); base_inputs is heap[1]                                *)
(* ------------------------------------------------------------------ *)
\* line 308
ScenarioTypes == <<"base", "conservative", "aggressive">>

CompareDebtSet == {None, Some(make_debt_params(N(900), Zero, 2))}

CompareInit ==
    /\ heap \in {<<b>> : b \in AdjustInputsSet}
    /\ base_ref = 1
    /\ adj_ref = 0
    /\ adj_log = << >>
    /\ wc_log = {}
    /\ inputs = heap[1]
    /\ num_months \in 1..MaxMonths
    /\ debt_params \in CompareDebtSet
    /\ given = [inputs |-> inputs, num_months |-> num_months, debt_params |-> debt_params]
    /\ earlier = << >>
    /\ pc = "compare"
    /\ month = 0
    /\ wc_previous = Zero
    /\ ar_previous = Zero
    /\ inventory_previous = Zero
    /\ ap_previous = Zero
    /\ cash_balance = Zero
    /\ results = << >>

\* line 313: scenarios[scenario_type] = the records the engine returned
store_scenario(scenarios, call, records) ==
    Append(scenarios, [given |-> call, results |-> records])

\* lines 310-313 up to the call of the engine: the adjusted copy of the base
\* becomes the inputs of the call
enter_scenario(out) ==
    /\ heap' = out.heap
    /\ adj_ref' = out.ref
    /\ inputs' = out.heap[out.ref]
    /\ given' = [inputs |-> out.heap[out.ref], num_months |-> num_months,
                 debt_params |-> debt_params]

\* lines 308-313: the next scenario_type of the loop
NextScenario ==
    /\ pc \in {"compare", "done"}
    /\ Len(adj_log) < Len(ScenarioTypes)
    /\ enter_scenario(apply_scenario_adjustments(heap, 1, ScenarioTypes[Len(adj_log) + 1]))
    /\ adj_log' = Append(adj_log, adjust_entry(heap, [heap |-> heap', ref |-> adj_ref'], 1,
                                               ScenarioTypes[Len(adj_log) + 1]))
    /\ base_ref' = 1
    /\ earlier' = IF pc = "done" THEN store_scenario(earlier, given, results) ELSE earlier
    /\ pc' = "call"
    /\ UNCHANGED <<num_months, debt_params, month, wc_previous, ar_previous,
                   inventory_previous, ap_previous, cash_balance, results, wc_log>>

\* line 315: the loop is over, the scenarios are returned
ReturnScenarios ==
    /\ pc = "done"
    /\ Len(adj_log) = Len(ScenarioTypes)
    /\ earlier' = store_scenario(earlier, given, results)
    /\ pc' = "returned"
    /\ UNCHANGED <<args, month, wc_previous, ar_previous, inventory_previous,
                   ap_previous, cash_balance, results, given,
                   heap, base_ref, adj_ref, adj_log, wc_log>>

CompareNext == Next \/ NextScenario \/ ReturnScenarios

CompareSpec == CompareInit /\ [][CompareNext]_vars

(* ------------------------------------------------------------------ *)
(* Properties                                                          *)
(* ------------------------------------------------------------------ *)
\* the record of month m is results[m + 1]
Months == {i - 1 : i \in DOMAIN results}

Rec(m) == results[m + 1]

HasDebt == ~IsNone(debt_params)

ZeroRateLoan == HasDebt /\ Val(debt_params).interest_rate = Zero

opening_cash == Get(inputs, "opening_cash", Zero)

cogs_increase == Get(inputs, "cogs_increase", Zero)

\* C1: for every month i >= 1 of a projection,
\* cash_balance[i] = cash_balance[i-1] + fcf_after_debt[i].
C1_CashIdentity ==
    \A m \in Months :
        m >= 1 => Rec(m).cash_balance =
                      RAdd(Rec(m - 1).cash_balance, Rec(m).fcf_after_debt)

\* a finished projection with debt whose months pay principal and move cash
C1_Witness ==
    /\ pc = "done"
    /\ HasDebt
    /\ \E m \in Months :
        /\ m >= 2
        /\ Rec(m).principal_payment # Zero
        /\ Rec(m).fcf_after_debt # Zero
        /\ Rec(m).cash_balance # Rec(m - 1).cash_balance
        /\ Rec(m - 1).cash_balance # Rec(m - 2).cash_balance

\* C2: the month-0 record has cash_balance = opening_cash; the fcf_after_debt
\* of month 0 is never added, even when it is not zero.
C2_Month0Cash ==
    0 \in Months => Rec(0).cash_balance = opening_cash

C2_Witness ==
    /\ 0 \in Months
    /\ Rec(0).fcf_after_debt # Zero
    /\ opening_cash # Zero

\* C3: the month-0 record has delta_wc = delta_ar = delta_inventory =
\* delta_ap = 0, whatever the inputs.
C3_Month0Deltas ==
    0 \in Months =>
        /\ Rec(0).delta_wc = Zero
        /\ Rec(0).delta_ar = Zero
        /\ Rec(0).delta_inventory = Zero
        /\ Rec(0).delta_ap = Zero

\* a base cogs_pct above the cap: the month-0 balances differ from the
\* steady-state balances the loop starts from, and revenue grows
C3_Witness ==
    /\ 0 \in Months
    /\ RLt(CogsCap, inputs.cogs_pct)
    /\ Get(inputs, "price_increase", Zero) # Zero
    /\ LET initial_wc ==
               calculate_wc_components(inputs.revenue, inputs.cogs_pct, inputs.ar_days,
                                       inputs.ap_days, inputs.inventory_days)
       IN  /\ Rec(0).inventory # initial_wc.inventory
           /\ Rec(0).ap # initial_wc.ap
           /\ Rec(0).wc # calculate_working_capital(initial_wc.ar, initial_wc.inventory,
                                                    initial_wc.ap)

\* C4: a projection over N months returns N + 1 records whose month fields
\* are 0, 1, ..., N in that order.
C4_RecordCount ==
    pc = "done" =>
        /\ Len(results) = num_months + 1
        /\ \A i \in DOMAIN results : results[i].month = i - 1

C4_Witness ==
    /\ pc = "done"
    /\ num_months >= 2
    /\ Len(results) >= 3

\* C5: without debt_params every record has interest_expense = 0,
\* principal_payment = 0 and dscr = 0.
C5_NoDebtZeroService ==
    ~HasDebt =>
        \A m \in Months :
            /\ Rec(m).interest_expense = Zero
            /\ Rec(m).principal_payment = Zero
            /\ Rec(m).dscr = Zero

C5_Witness ==
    /\ pc = "done"
    /\ ~HasDebt
    /\ \E m \in Months : m >= 1 /\ Rec(m).fcf # Zero

\* C6: for a zero-interest loan the remaining balance decreases by exactly
\* monthly_payment from each month m to m + 1, for 1 <= m < term_months.
C6_ZeroRateLinear ==
    ZeroRateLoan =>
        LET dp == Val(debt_params)
        IN  /\ \A m \in 1..(dp.term_months - 1) :
                   RSub(calculate_debt_service(debt_params, m).remaining_balance,
                        calculate_debt_service(debt_params, m + 1).remaining_balance)
                       = dp.monthly_payment
            /\ \A m \in Months :
                   (m >= 1 /\ m < dp.term_months /\ m + 1 \in Months) =>
                       RSub(Rec(m).debt_balance, Rec(m + 1).debt_balance)
                           = dp.monthly_payment

\* a zero-interest loan with a positive amount, projected over its whole term
C6_Witness ==
    /\ pc = "done"
    /\ ZeroRateLoan
    /\ RLt(Zero, Val(debt_params).loan_amount)
    /\ Val(debt_params).term_months >= 3
    /\ num_months >= Val(debt_params).term_months

\* C7: for a zero-interest loan the remaining balance is 0 at
\* month = term_months.
C7_ZeroRateRetiredAtTerm ==
    ZeroRateLoan =>
        \A m \in Months :
            m = Val(debt_params).term_months => Rec(m).debt_balance = Zero

\* C8: in every record with revenue >= 0, cogs <= 0.95 * revenue.
C8_CogsCapped ==
    \A m \in Months :
        RLe(Zero, Rec(m).revenue) => RLe(Rec(m).cogs, RMul(CogsCap, Rec(m).revenue))

\* a month whose compounded cogs_pct is above the cap, with revenue
C8_Witness ==
    \E m \in Months :
        /\ RLt(Zero, Rec(m).revenue)
        /\ RLt(Zero, cogs_increase)
        /\ RLt(inputs.cogs_pct, CogsCap)
        /\ RLt(CogsCap, compound(inputs.cogs_pct, cogs_increase, m))

\* the least month from m on (searched up to CapSearch) at which
\* base * (1 + inc)^month has reached the cap, or -1
CapSearch == 8

RECURSIVE months_to_cap(_, _, _)
months_to_cap(base, inc, m) ==
    IF RLe(CogsCap, compound(base, inc, m)) THEN m
    ELSE IF m >= CapSearch THEN -1
    ELSE months_to_cap(base, inc, m + 1)

AtCap(m) == Rec(m).cogs = RMul(CogsCap, Rec(m).revenue)

ReachesCap ==
    LET M == months_to_cap(inputs.cogs_pct, cogs_increase, 0)
    IN  /\ M # -1
        /\ \A m \in Months : m >= M => AtCap(m)

\* C9 as stated: for any inputs with cogs_increase > 0 there is a month M such
\* that cogs_pct = 0.95 at month M and at every later month (read on a finished
\* projection with revenue, where cogs / revenue is the effective cogs_pct).
C9_Original ==
    (pc = "done" /\ RLt(Zero, cogs_increase) /\ RLt(Zero, inputs.revenue)) => ReachesCap

\* C9 amended: the same for inputs whose base cogs_pct is positive; a base
\* cogs_pct of 0 stays 0 in every month (0 * (1 + g)^month = 0).
C9_CapReached ==
    RLt(Zero, cogs_increase) =>
        /\ RLt(Zero, inputs.cogs_pct) => ReachesCap
        /\ inputs.cogs_pct = Zero => \A m \in Months : Rec(m).cogs = Zero

\* a projection that starts below the cap, reaches it by growth and has a
\* later month
C9_Witness ==
    /\ pc = "done"
    /\ RLt(Zero, cogs_increase)
    /\ RLt(Zero, inputs.cogs_pct)
    /\ RLt(Zero, inputs.revenue)
    /\ LET M == months_to_cap(inputs.cogs_pct, cogs_increase, 0)
       IN  /\ M >= 2
           /\ M + 1 \in Months
           /\ ~AtCap(M - 1)

\* C10 as stated: in every record with revenue > 0, cogs < 0.95 * revenue.
C10_Original ==
    \A m \in Months :
        RLt(Zero, Rec(m).revenue) => RLt(Rec(m).cogs, RMul(CogsCap, Rec(m).revenue))

\* C10 amended: in every record with revenue > 0, cogs is at most
\* 0.95 * revenue, and equals it exactly in the months whose compounded
\* cogs_pct is 0.95 or more.
C10_CogsAtMostCap ==
    \A m \in Months :
        RLt(Zero, Rec(m).revenue) =>
            /\ ~RLt(RMul(CogsCap, Rec(m).revenue), Rec(m).cogs)
            /\ AtCap(m) <=> RLe(CogsCap, compound(inputs.cogs_pct, cogs_increase, m))

\* a record that consumes exactly 95% of revenue and one that consumes less
C10_Witness ==
    \E m1, m2 \in Months :
        /\ RLt(Zero, Rec(m1).revenue)
        /\ AtCap(m1)
        /\ ~AtCap(m2)
        /\ m2 < m1


\* C11: in every record, ccc = ar_days + inventory_days - ap_days of the inputs,
\* so ccc is the same in all records of one run.
C11_CccConstant ==
    /\ \A m \in Months :
           Rec(m).ccc = RSub(RAdd(inputs.ar_days, inputs.inventory_days), inputs.ap_days)
    /\ \A m1, m2 \in Months : Rec(m1).ccc = Rec(m2).ccc

\* a finished projection with growth, a non-zero ap_days and a non-zero ccc
C11_Witness ==
    /\ pc = "done"
    /\ Len(results) >= 3
    /\ inputs.ap_days # Zero
    /\ Rec(2).ccc # Zero
    /\ Rec(2).revenue # Rec(0).revenue

\* C12: the end-to-end example: for ExampleInputs, no debt and num_months = 1,
\* the month-1 record has revenue 110000, cogs 66000, ebit 24000, ar 165000,
\* inventory 132000, ap 66000, wc 231000, delta_wc 21000, fcf -4000 and
\* cash_balance 96000.
C12_Example ==
    (pc = "done" /\ inputs = ExampleInputs /\ ~HasDebt /\ num_months = 1) =>
        /\ Rec(1).revenue = N(110000)
        /\ Rec(1).cogs = N(66000)
        /\ Rec(1).ebit = N(24000)
        /\ Rec(1).ar = N(165000)
        /\ Rec(1).inventory = N(132000)
        /\ Rec(1).ap = N(66000)
        /\ Rec(1).wc = N(231000)
        /\ Rec(1).delta_wc = N(21000)
        /\ Rec(1).fcf = N(-4000)
        /\ Rec(1).cash_balance = N(96000)

C12_Witness ==
    /\ pc = "done"
    /\ inputs = ExampleInputs
    /\ ~HasDebt
    /\ num_months = 1
    /\ Len(results) = 2


\* C13: the month-0 record reports interest_expense = 0, principal_payment = 0
\* and debt_balance = loan_amount when debt is present (0 when absent),
\* whatever calculate_debt_service would return for month 0.
C13_Month0Debt ==
    0 \in Months =>
        /\ Rec(0).interest_expense = Zero
        /\ Rec(0).principal_payment = Zero
        /\ Rec(0).debt_balance =
               IF HasDebt THEN Val(debt_params).loan_amount ELSE Zero

\* a loan for which calculate_debt_service(debt_params, 0) returns a payment
\* and another balance
C13_Witness ==
    /\ 0 \in Months
    /\ HasDebt
    /\ RLt(Zero, Val(debt_params).loan_amount)
    /\ LET s0 == calculate_debt_service(debt_params, 0)
       IN  /\ s0.principal_payment # Zero
           /\ s0.remaining_balance # Val(debt_params).loan_amount

Service(m) == RAdd(Rec(m).interest_expense, Rec(m).principal_payment)

CarriesService(m) == HasDebt /\ m > 0 /\ RLt(Zero, Service(m))

\* C14: in every record, dscr = fcf / (interest_expense + principal_payment)
\* when debt is present, month > 0 and the debt service is positive; in every
\* other record dscr = 0.
C14_Dscr ==
    \A m \in Months :
        /\ CarriesService(m) => Rec(m).dscr = RDiv(Rec(m).fcf, Service(m))
        /\ ~CarriesService(m) => Rec(m).dscr = Zero
        /\ Rec(m).dscr # Zero => CarriesService(m)

\* a loan with interest: a month with a non-zero dscr, and a month after the
\* term with fcf but no service
C14_Witness ==
    /\ pc = "done"
    /\ HasDebt
    /\ Val(debt_params).interest_rate # Zero
    /\ \E m1, m2 \in Months :
        /\ CarriesService(m1)
        /\ Rec(m1).interest_expense # Zero
        /\ Rec(m1).dscr # Zero
        /\ m2 > 0
        /\ ~CarriesService(m2)
        /\ Rec(m2).fcf # Zero

\* C15: for every month > term_months calculate_debt_service returns zero
\* interest, principal and balance, so every record after the term has zero
\* debt service, zero debt_balance and dscr = 0.
C15_AfterTerm ==
    HasDebt =>
        LET term == Val(debt_params).term_months
        IN  /\ \A m \in (term + 1)..(term + MaxMonths) :
                   calculate_debt_service(debt_params, m) = ZeroService
            /\ \A m \in Months :
                   m > term =>
                       /\ Rec(m).interest_expense = Zero
                       /\ Rec(m).principal_payment = Zero
                       /\ Rec(m).debt_balance = Zero
                       /\ Rec(m).dscr = Zero

\* a projection that runs past the term of a loan with a positive payment
C15_Witness ==
    /\ pc = "done"
    /\ HasDebt
    /\ RLt(Zero, Val(debt_params).monthly_payment)
    /\ \E m \in Months :
        /\ m > Val(debt_params).term_months
        /\ Rec(m).fcf # Zero
        /\ Rec(m - 1).principal_payment # Zero


\* the ratios of record m over the divisor liab
RatiosOver(m, liab) ==
    /\ Rec(m).current_ratio =
           RDiv(RAdd(RAdd(Rec(m).ar, Rec(m).inventory), Rec(m).cash_balance), liab)
    /\ Rec(m).quick_ratio = RDiv(RAdd(Rec(m).ar, Rec(m).cash_balance), liab)

\* C20 as stated: the ratios divide by max(ap, 1) for every ap, including
\* 0 < ap < 1 and ap <= 0.
C20_Original ==
    \A m \in Months : RatiosOver(m, RMax(Rec(m).ap, One))

\* C20 amended: the ratios divide by ap when ap > 0, also when 0 < ap < 1,
\* and by 1 when ap <= 0.
C20_RatioDivisor ==
    \A m \in Months :
        /\ RLt(Zero, Rec(m).ap) => RatiosOver(m, Rec(m).ap)
        /\ RLe(Rec(m).ap, Zero) => RatiosOver(m, One)

\* a record whose payables are positive and below 1
C20_Witness ==
    \E m \in Months :
        /\ RLt(Zero, Rec(m).ap)
        /\ RLt(Rec(m).ap, One)
        /\ Rec(m).current_ratio # Zero
        /\ Rec(m).inventory # Zero

\* the last entry of the log of apply_scenario_adjustments calls
LastAdjust == adj_log[Len(adj_log)]

\* C16: apply_scenario_adjustments changes only ar_days, ap_days and
\* inventory_days: conservative gives ar_days+10, max(0, ap_days-5),
\* inventory_days*1.15; aggressive gives max(0, ar_days-10), ap_days+10,
\* inventory_days*0.85; base or an unrecognized kind gives a result equal to
\* the input in every field.
C16_Adjusted ==
    \A i \in DOMAIN adj_log :
        LET e == adj_log[i]
        IN  /\ e.kind = "conservative" =>
                   e.result = [e.arg EXCEPT !.ar_days = RAdd(@, N(10)),
                                            !.ap_days = RMax(Zero, RSub(@, N(5))),
                                            !.inventory_days = RMul(@, Q(115, 100))]
            /\ e.kind = "aggressive" =>
                   e.result = [e.arg EXCEPT !.ar_days = RMax(Zero, RSub(@, N(10))),
                                            !.ap_days = RAdd(@, N(10)),
                                            !.inventory_days = RMul(@, Q(85, 100))]
            /\ e.kind \notin {"conservative", "aggressive"} => e.result = e.arg

\* both clamps at 0 have acted: an aggressive call on ar_days < 10 and a
\* conservative call on ap_days < 5
C16_Witness ==
    /\ \E i \in DOMAIN adj_log :
           adj_log[i].kind = "aggressive" /\ RLt(adj_log[i].arg.ar_days, N(10))
                /\ adj_log[i].arg.inventory_days # Zero
    /\ \E i \in DOMAIN adj_log :
           adj_log[i].kind = "conservative" /\ RLt(adj_log[i].arg.ap_days, N(5))

\* C17: apply_scenario_adjustments never mutates its input: after the call
\* base_inputs has the value it had before, the returned dict is another
\* object, and later assignments to the returned dict leave base_inputs alone.
C17_InputUnchanged ==
    /\ \A i \in DOMAIN adj_log :
           /\ adj_log[i].arg_after = adj_log[i].arg
           /\ adj_log[i].result_ref # adj_log[i].arg_ref
    /\ adj_log # << >> => heap[base_ref] = LastAdjust.arg

\* the caller has assigned to the dict a conservative call returned
C17_Witness ==
    /\ adj_log # << >>
    /\ LastAdjust.kind = "conservative"
    /\ heap[adj_ref] # LastAdjust.result

\* C18: adjusting an adjusted record with the same kind compounds: the
\* second result differs from the first, and conservative twice gives
\* ar_days = base ar_days + 20.
C18_Compounds ==
    \A i, j \in DOMAIN adj_log :
        (/\ i < j
         /\ adj_log[i].kind \in {"conservative", "aggressive"}
         /\ adj_log[j].kind = adj_log[i].kind
         /\ adj_log[j].arg = adj_log[i].result)
        => /\ adj_log[j].result # adj_log[i].result
           /\ adj_log[i].kind = "conservative" =>
                  adj_log[j].result.ar_days = RAdd(adj_log[i].arg.ar_days, N(20))

\* conservative has been applied to the result of conservative
C18_Witness ==
    /\ Len(adj_log) >= 2
    /\ adj_log[1].kind = "conservative"
    /\ adj_log[2].kind = "conservative"
    /\ adj_log[2].arg = adj_log[1].result
    /\ adj_log[2].arg_ref = adj_log[1].result_ref
    /\ adj_log[1].arg.ar_days = N(45)

\* C19: generate_monthly_projections never changes the inputs or debt_params
\* it was given, and a call returns the records an earlier call with equal
\* arguments returned, whatever was called in between.
C19_NoMutationNoMemory ==
    /\ inputs = given.inputs
    /\ num_months = given.num_months
    /\ debt_params = given.debt_params
    /\ pc = "done" =>
           \A i \in DOMAIN earlier :
               earlier[i].given = given => earlier[i].results = results

\* the first call has been repeated after a call with other arguments
C19_Witness ==
    /\ pc = "done"
    /\ Len(earlier) = 2
    /\ earlier[1].given = given
    /\ earlier[2].given # given
    /\ HasDebt
    /\ Len(results) = MaxMonths + 1
    /\ Rec(1).revenue # Rec(0).revenue

\* the fields of a record of the result
MonthRecordFields ==
    {"month", "revenue", "cogs", "ebit", "interest_expense", "ebit_after_interest",
     "ebit_after_tax", "ar", "inventory", "ap", "wc", "delta_wc", "delta_ar",
     "delta_inventory", "delta_ap", "fcf", "principal_payment", "fcf_after_debt",
     "debt_balance", "dscr", "cash_balance", "ccc", "gross_margin", "current_ratio",
     "quick_ratio", "days_cash_on_hand", "operating_margin"}

\* the divisors of the iteration that is about to run
NextDivisors ==
    iteration_divisors(debt_params, month,
                       month_earnings(inputs, month_levels(inputs, debt_params, month)))

C22_FcfFromAfterTax ==
    \A m \in Months :
        /\ Rec(m).fcf = RSub(RSub(RAdd(Rec(m).ebit_after_tax, inputs.depreciation),
                                  inputs.capex),
                             Rec(m).delta_wc)
        /\ Rec(m).fcf_after_debt = RSub(Rec(m).fcf, Rec(m).principal_payment)

\* a month with interest, tax, principal and a working-capital change
C22_Witness ==
    \E m \in Months :
        /\ RLt(Zero, Rec(m).interest_expense)
        /\ RLt(Zero, Rec(m).principal_payment)
        /\ RLt(Zero, inputs.tax_rate)
        /\ Rec(m).delta_wc # Zero
        /\ Rec(m).ebit_after_tax # Rec(m).ebit_after_interest
        /\ inputs.depreciation # inputs.capex

\* C23: for every month i >= 1 the deltas are the differences to the record
\* of month i-1: delta_ar = ar[i] - ar[i-1], delta_inventory = inventory[i] -
\* inventory[i-1], delta_ap = ap[i] - ap[i-1] and delta_wc = wc[i] - wc[i-1].
C23_DeltasFromPreviousRecord ==
    \A m \in Months :
        m >= 1 =>
            /\ Rec(m).delta_ar = RSub(Rec(m).ar, Rec(m - 1).ar)
            /\ Rec(m).delta_inventory = RSub(Rec(m).inventory, Rec(m - 1).inventory)
            /\ Rec(m).delta_ap = RSub(Rec(m).ap, Rec(m - 1).ap)
            /\ Rec(m).delta_wc = RSub(Rec(m).wc, Rec(m - 1).wc)

\* growing balances over two months, from a base cogs_pct above the cap (the
\* balances computed before the loop are not those of the month-0 record)
C23_Witness ==
    /\ RLt(CogsCap, inputs.cogs_pct)
    /\ 2 \in Months
    /\ \A m \in {1, 2} :
           /\ Rec(m).delta_ar # Zero
           /\ Rec(m).delta_inventory # Zero
           /\ Rec(m).delta_ap # Zero
           /\ Rec(m).delta_wc # Zero
    /\ Rec(2).delta_ar # Rec(1).delta_ar

\* C24: for every month m with 1 <= m <= term_months, with a zero rate or not,
\* calculate_debt_service returns interest_expense + principal_payment =
\* monthly_payment, and at month 1 interest_expense = loan_amount *
\* interest_rate / 12.
C24_ServiceIsPayment ==
    HasDebt =>
        /\ \A m \in 1..Val(debt_params).term_months :
               RAdd(calculate_debt_service(debt_params, m).interest_expense,
                    calculate_debt_service(debt_params, m).principal_payment)
                   = Val(debt_params).monthly_payment
        /\ calculate_debt_service(debt_params, 1).interest_expense =
               RDiv(RMul(Val(debt_params).loan_amount, Val(debt_params).interest_rate),
                    N(12))
        /\ \A m \in Months :
               (1 <= m /\ m <= Val(debt_params).term_months) =>
                   Service(m) = Val(debt_params).monthly_payment

\* a projection over the whole term of a loan with interest
C24_Witness ==
    /\ HasDebt
    /\ pc = "done"
    /\ Val(debt_params).interest_rate # Zero
    /\ Val(debt_params).term_months = 3
    /\ Len(results) = 4
    /\ \A m \in 1..3 : RLt(Zero, Rec(m).interest_expense)
                          /\ Rec(m).principal_payment # Zero

\* the opex of month m: base_opex * (1 + opex_increase) ** m
OpexOf(m) == compound(inputs.opex, Get(inputs, "opex_increase", Zero), m)

\* the divisor of the ratios of record m
LiabilitiesOf(m) == IF RLt(Zero, Rec(m).ap) THEN Rec(m).ap ELSE One

\* C25: the metrics of record i use the cash balance of record i:
\* current_ratio[i] = (ar[i] + inventory[i] + cash_balance[i]) /
\* current_liabilities[i], and days_cash_on_hand[i] = cash_balance[i] /
\* (opex[i] / 30) when opex[i] > 0.
C25_MetricsUseUpdatedCash ==
    \A m \in Months :
        /\ Rec(m).current_ratio =
               RDiv(RAdd(RAdd(Rec(m).ar, Rec(m).inventory), Rec(m).cash_balance),
                    LiabilitiesOf(m))
        /\ RLt(Zero, OpexOf(m)) =>
               Rec(m).days_cash_on_hand =
                   RDiv(Rec(m).cash_balance, RDiv(OpexOf(m), N(30)))

\* a month whose cash balance differs from the previous month's, with opex
\* and payables above zero
C25_Witness ==
    \E m \in Months :
        /\ m >= 1
        /\ Rec(m).cash_balance # Rec(m - 1).cash_balance
        /\ RLt(Zero, OpexOf(m))
        /\ OpexOf(m) # inputs.opex
        /\ RLt(Zero, Rec(m).ap)
        /\ Rec(m).days_cash_on_hand # Zero

\* a non-negative whole number
IsDayCount(x) == x.d = 1 /\ x.n >= 0

\* C26: starting from non-negative integer day terms, after any sequence of
\* apply_scenario_adjustments calls ar_days, ap_days and inventory_days of
\* every record are still non-negative integers.
C26_DayTermsStayIntegers ==
    \A i \in DOMAIN adj_log :
        IsDayCount(adj_log[i].arg.ar_days) /\ IsDayCount(adj_log[i].arg.ap_days)
            /\ IsDayCount(adj_log[i].arg.inventory_days)
        => /\ IsDayCount(adj_log[i].result.ar_days)
           /\ IsDayCount(adj_log[i].result.ap_days)
           /\ IsDayCount(adj_log[i].result.inventory_days)

\* C27: in a projection with debt, for every month m with
\* 1 <= m <= term_months, debt_balance[m] = debt_balance[m-1] -
\* principal_payment[m].
C27_BalanceFollowsPrincipal ==
    HasDebt =>
        \A m \in Months :
            (1 <= m /\ m <= Val(debt_params).term_months) =>
                Rec(m).debt_balance =
                    RSub(Rec(m - 1).debt_balance, Rec(m).principal_payment)

\* C28: in every record delta_wc = delta_ar + delta_inventory - delta_ap and
\* wc = ar + inventory - ap.
C28_WcDecomposes ==
    \A m \in Months :
        /\ Rec(m).delta_wc =
               RSub(RAdd(Rec(m).delta_ar, Rec(m).delta_inventory), Rec(m).delta_ap)
        /\ Rec(m).wc = RSub(RAdd(Rec(m).ar, Rec(m).inventory), Rec(m).ap)

\* a month in which receivables, inventory and payables all changed, by
\* different amounts
C28_Witness ==
    \E m \in Months :
        /\ Rec(m).delta_ar # Zero
        /\ Rec(m).delta_ap # Zero
        /\ Rec(m).delta_inventory # Rec(m).delta_ap
        /\ Rec(m).delta_inventory # Zero
        /\ Rec(m).delta_wc # Rec(m).wc
        /\ Rec(m).delta_wc # Rec(m).delta_ar

\* the three day terms of a parameter record
DayTerms(r) == <<r.ar_days, r.ap_days, r.inventory_days>>

\* C29: for a base with non-negative integer day terms, the day terms
\* render_wc_scenarios gives to the engine for aggressive and conservative
\* are those of apply_scenario_adjustments(base, kind).
C29_SameTermsAsAdjuster ==
    \A w \in wc_log :
        \A i \in DOMAIN adj_log :
            (adj_log[i].arg = w.base /\ adj_log[i].kind = w.kind)
            => DayTerms(adj_log[i].result) = DayTerms(w.inputs)

\* the records of the scenario of the given type, once the comparison is over
Scenario(scenario_type) ==
    earlier[CHOOSE i \in DOMAIN ScenarioTypes : ScenarioTypes[i] = scenario_type]

\* C30: for a base with non-negative day terms, in every month the ccc of
\* the aggressive projection < the ccc of the base projection < the ccc of
\* the conservative projection, each ccc being ar_days + inventory_days -
\* ap_days of the adjusted inputs.
C30_CccOrdered ==
    pc = "returned" =>
        /\ \A i \in DOMAIN earlier :
               \A k \in DOMAIN earlier[i].results :
                   earlier[i].results[k].ccc =
                       RSub(RAdd(earlier[i].given.inputs.ar_days,
                                 earlier[i].given.inputs.inventory_days),
                            earlier[i].given.inputs.ap_days)
        /\ \A k \in 1..(num_months + 1) :
               /\ RLt(Scenario("aggressive").results[k].ccc, Scenario("base").results[k].ccc)
               /\ RLt(Scenario("base").results[k].ccc,
                      Scenario("conservative").results[k].ccc)

\* a finished comparison over a base whose ar_days and ap_days are clamped
\* at 0 by the adjustments
C30_Witness ==
    /\ pc = "returned"
    /\ Len(earlier) = 3
    /\ num_months = MaxMonths
    /\ RLt(heap[1].ar_days, N(10))
    /\ RLt(heap[1].ap_days, N(5))
    /\ RLt(Zero, heap[1].inventory_days)
    /\ Len(Scenario("aggressive").results) = num_months + 1

====
